---- MODULE Spec2Model ----
(***************************************************************************)
(* Watertight ray/triangle intersection (Woop, Benthin, Wald 2013) as      *)
(* implemented in src/lib.rs, over exact arithmetic.                        *)
(*                                                                         *)
(* The scalar type S of the crate is modelled by the rationals: a scalar   *)
(* is a pair <<n, d>> in lowest terms with d > 0.  The pair <<0, 0>>       *)
(* stands for a non-finite scalar (the result of a division by zero); it   *)
(* is absorbing for the arithmetic and every comparison with it is false,  *)
(* as for a NaN.                                                           *)
(*                                                                         *)
(* A caller is a script of calls: RayData::new and RayData::intersect are  *)
(* executed in script order, and every intersect call is logged with its   *)
(* arguments and its result.                                               *)
(***************************************************************************)
EXTENDS Integers, Sequences, FiniteSets, TLC

VARIABLES
    todo,   \* the calls the caller still has to make, in order
    argOrg, \* the org argument of the last RayData::new
    argDir, \* the dir argument of the last RayData::new (not stored by the code)
    ray,    \* the RayData the caller holds (NoRay before the first new)
    calls,  \* log of the intersect calls made so far
    vec,    \* the argument of a direct max_dim evaluation
    dim     \* its result (NoDim before the evaluation)

vars == <<todo, argOrg, argDir, ray, calls, vec, dim>>

-----------------------------------------------------------------------------
(* The scalar type S: exact rationals.                                     *)

Abs(i) == IF i < 0 THEN -i ELSE i

RECURSIVE Gcd(_, _)
Gcd(m, n) == IF n = 0 THEN m ELSE Gcd(n, m % n)

Undef == <<0, 0>>

Norm(n, d) ==
    IF d = 0 THEN Undef
    ELSE LET g == Gcd(Abs(n), Abs(d))
             s == IF d < 0 THEN -1 ELSE 1
         IN  <<(s * n) \div g, (s * d) \div g>>

R(i) == <<i, 1>>
Zero == R(0)
One == R(1)

Defined(x) == x[2] # 0

RAdd(x, y) == Norm(x[1] * y[2] + y[1] * x[2], x[2] * y[2])
RSub(x, y) == Norm(x[1] * y[2] - y[1] * x[2], x[2] * y[2])
RMul(x, y) == Norm(x[1] * y[1], x[2] * y[2])
RDiv(x, y) == IF Defined(x) /\ Defined(y) THEN Norm(x[1] * y[2], x[2] * y[1]) ELSE Undef
RAbs(x) == <<Abs(x[1]), x[2]>>
RNeg(x) == <<-x[1], x[2]>>

REq(x, y) == Defined(x) /\ Defined(y) /\ x = y
RLt(x, y) == Defined(x) /\ Defined(y) /\ x[1] * y[2] < y[1] * x[2]
RGt(x, y) == RLt(y, x)
RGe(x, y) == Defined(x) /\ Defined(y) /\ x[1] * y[2] >= y[1] * x[2]

(* Vector3<S>: a triple of scalars; the code's index i in 0..2 is i + 1.   *)
At(v, i) == v[i + 1]
VSub(p, q) == <<RSub(p[1], q[1]), RSub(p[2], q[2]), RSub(p[3], q[3])>>
VNeg(p) == <<RNeg(p[1]), RNeg(p[2]), RNeg(p[3])>>
Vec(x, y, z) == <<R(x), R(y), R(z)>>

-----------------------------------------------------------------------------
(* fn max_dim                                                              *)

\* max_dim without the calls of abs()
max_dim_noabs(v) ==
    LET x == v[1]
        y == v[2]
        z == v[3]
    IN  IF RGt(x, y)
        THEN (IF RGt(x, z) THEN 0 ELSE 2)
        ELSE IF RGt(y, z) THEN 1
        ELSE 2

\* max_dim with >= for the comparison of y and z
max_dim_ge(v) ==
    LET x == RAbs(v[1])
        y == RAbs(v[2])
        z == RAbs(v[3])
    IN  IF RGt(x, y)
        THEN (IF RGt(x, z) THEN 0 ELSE 2)
        ELSE IF RGe(y, z) THEN 1
        ELSE 2

max_dim(v) ==
    LET x == RAbs(v[1])
        y == RAbs(v[2])
        z == RAbs(v[3])
    IN  IF RGt(x, y)
        THEN (IF RGt(x, z) THEN 0 ELSE 2)
        ELSE IF RGt(y, z) THEN 1
        ELSE 2

(* RayData::new                                                            *)

\* RayData::new with the shear coefficients sx and sy exchanged
RayData_new_swapped(o, d) ==
    LET kz == max_dim(d)
        kx == (kz + 1) % 3
        ky == (kz + 2) % 3
    IN  [kx |-> kx, ky |-> ky, kz |-> kz,
         sx |-> RDiv(At(d, ky), At(d, kz)),
         sy |-> RDiv(At(d, kx), At(d, kz)),
         sz |-> RDiv(One, At(d, kz)),
         org |-> o]

\* RayData::new with sz = 1 / |dir[kz]|
RayData_new_abs(o, d) ==
    LET kz == max_dim(d)
        kx == (kz + 1) % 3
        ky == (kz + 2) % 3
    IN  [kx |-> kx, ky |-> ky, kz |-> kz,
         sx |-> RDiv(At(d, kx), At(d, kz)),
         sy |-> RDiv(At(d, ky), At(d, kz)),
         sz |-> RDiv(One, RAbs(At(d, kz))),
         org |-> o]

NoRay == [kx |-> 3, ky |-> 3, kz |-> 3, sx |-> Undef, sy |-> Undef, sz |-> Undef,
          org |-> <<Undef, Undef, Undef>>]

RayData_new(o, d) ==
    LET kz == max_dim(d)
        kx == (kz + 1) % 3
        ky == (kz + 2) % 3
    IN  [kx |-> kx, ky |-> ky, kz |-> kz,
         sx |-> RDiv(At(d, kx), At(d, kz)),
         sy |-> RDiv(At(d, ky), At(d, kz)),
         sz |-> RDiv(One, At(d, kz)),
         org |-> o]

(* struct Intersection, Option<Intersection>                               *)

None == [some |-> FALSE, t |-> Undef, u |-> Undef, v |-> Undef, w |-> Undef]
Some(t, u, v, w) == [some |-> TRUE, t |-> t, u |-> u, v |-> v, w |-> w]

\* the edge functions with U and V exchanged
EdgeFunctions_swapped(ax, ay, bx, by, cx, cy) ==
    [u |-> RSub(RMul(ax, cy), RMul(ay, cx)),
     v |-> RSub(RMul(cx, by), RMul(cy, bx)),
     w |-> RSub(RMul(bx, ay), RMul(by, ax))]

(* The three edge functions of lines 68-70.                                *)
EdgeFunctions(ax, ay, bx, by, cx, cy) ==
    [u |-> RSub(RMul(cx, by), RMul(cy, bx)),
     v |-> RSub(RMul(ax, cy), RMul(ay, cx)),
     w |-> RSub(RMul(bx, ay), RMul(by, ax))]

(* The fallback of lines 72-82: the same products, each named before the   *)
(* subtraction.                                                            *)
EdgeFallback(ax, ay, bx, by, cx, cy) ==
    LET cxby == RMul(cx, by)
        cybx == RMul(cy, bx)
        axcy == RMul(ax, cy)
        aycx == RMul(ay, cx)
        bxay == RMul(bx, ay)
        byax == RMul(by, ax)
    IN  [u |-> RSub(cxby, cybx), v |-> RSub(axcy, aycx), w |-> RSub(bxay, byax)]

\* the sign test with <= and >=: a zero counts as a sign of either kind
MixedSigns_strict(u, v, w) ==
    /\ (RGe(Zero, u) \/ RGe(Zero, v) \/ RGe(Zero, w))
    /\ (RGe(u, Zero) \/ RGe(v, Zero) \/ RGe(w, Zero))

\* the sign test without W
MixedSigns_noW(u, v, w) ==
    /\ (RLt(u, Zero) \/ RLt(v, Zero))
    /\ (RGt(u, Zero) \/ RGt(v, Zero))

(* lines 84-85 *)
MixedSigns(u, v, w) ==
    /\ (RLt(u, Zero) \/ RLt(v, Zero) \/ RLt(w, Zero))
    /\ (RGt(u, Zero) \/ RGt(v, Zero) \/ RGt(w, Zero))

\* no test of det
DetIsZero_never(det) == FALSE

\* a test of det against a tolerance
DetIsZero_eps(det) == RLt(RAbs(det), One)

(* line 91 *)
DetIsZero(det) == REq(det, Zero)

(* RayData::intersect, lines 58-82: the vertices relative to the origin,   *)
(* their sheared coordinates and the edge functions U, V, W the sign test  *)
(* reads (after the fallback).                                             *)
Edges(self, a0, b0, c0) ==
    LET sx == self.sx
        sy == self.sy
        org == self.org
        kx == self.kx
        ky == self.ky
        kz == self.kz
        a == VSub(a0, org)
        b == VSub(b0, org)
        c == VSub(c0, org)
        ax == RSub(At(a, kx), RMul(sx, At(a, kz)))
        ay == RSub(At(a, ky), RMul(sy, At(a, kz)))
        bx == RSub(At(b, kx), RMul(sx, At(b, kz)))
        by == RSub(At(b, ky), RMul(sy, At(b, kz)))
        cx == RSub(At(c, kx), RMul(sx, At(c, kz)))
        cy == RSub(At(c, ky), RMul(sy, At(c, kz)))
        e == EdgeFunctions(ax, ay, bx, by, cx, cy)
    IN  IF REq(e.u, Zero) \/ REq(e.v, Zero) \/ REq(e.w, Zero)
        THEN EdgeFallback(ax, ay, bx, by, cx, cy)
        ELSE e

(* RayData::intersect                                                      *)
intersect(self, a0, b0, c0) ==
    LET sz == self.sz
        org == self.org
        kz == self.kz
        a == VSub(a0, org)
        b == VSub(b0, org)
        c == VSub(c0, org)
        e == Edges(self, a0, b0, c0)
        u == e.u
        v == e.v
        w == e.w
        det == RAdd(RAdd(u, v), w)
        az == RMul(sz, At(a, kz))
        bz == RMul(sz, At(b, kz))
        cz == RMul(sz, At(c, kz))
        t == RAdd(RAdd(RMul(u, az), RMul(v, bz)), RMul(w, cz))
        rcp_det == RDiv(One, det)
    IN  IF MixedSigns(u, v, w) THEN None
        ELSE IF DetIsZero(det) THEN None
        ELSE Some(RMul(t, rcp_det), RMul(u, rcp_det), RMul(v, rcp_det), RMul(w, rcp_det))

-----------------------------------------------------------------------------
(* Inputs.  Points and directions have integer coordinates.                *)

MaxPts == 4     \* triangle vertices are the first MaxPts points of PtSeq
MaxOrgs == 3    \* ray origins are the first MaxOrgs points of OrgSeq
MaxDir == 2     \* ray directions have coordinates in -MaxDir..MaxDir
MaxVec == 3     \* max_dim arguments have coordinates in -MaxVec..MaxVec
MaxScale == 2   \* the scale factor
MaxBary == 2    \* a ray is aimed at the points (i*P + (MaxBary-i)*Q) / MaxBary of an edge PQ

PtSeq == << <<0, 0, 0>>, <<2, 0, 0>>, <<0, 1, 0>>, <<0, 0, 1>>, <<1, 1, 0>>,
            <<1, 0, 1>>, <<0, 1, 1>>, <<1, 1, 1>>, <<0, 2, 0>>, <<0, 0, 2>> >>

OrgSeq == << <<-1, -1, -1>>, <<0, 0, 0>>, <<0, 1, -1>>, <<1, 0, 0>>, <<-1, 0, 1>>,
             <<1, 1, 1>>, <<0, -1, 0>>, <<2, 1, -1>> >>

Cube(lo, hi) == {<<x, y, z>> : x \in lo..hi, y \in lo..hi, z \in lo..hi}

Pts == {PtSeq[i] : i \in 1..MaxPts}
Orgs == {OrgSeq[i] : i \in 1..MaxOrgs}
Dirs == Cube(-MaxDir, MaxDir) \ {<<0, 0, 0>>}
Vecs == Cube(-MaxVec, MaxVec)

V(p) == Vec(p[1], p[2], p[3])

(* integer vectors *)
IAdd(p, q) == <<p[1] + q[1], p[2] + q[2], p[3] + q[3]>>
ISub(p, q) == <<p[1] - q[1], p[2] - q[2], p[3] - q[3]>>
IScale(k, p) == <<k * p[1], k * p[2], k * p[3]>>
IDot(p, q) == p[1] * q[1] + p[2] * q[2] + p[3] * q[3]
ICross(p, q) == <<p[2] * q[3] - p[3] * q[2], p[3] * q[1] - p[1] * q[3], p[1] * q[2] - p[2] * q[1]>>
IZero == <<0, 0, 0>>

CallNew(o, d) == [op |-> "new", org |-> o, dir |-> d, a |-> o, b |-> o, c |-> o]
CallIntersect(a, b, c) == [op |-> "intersect", org |-> a, dir |-> a, a |-> a, b |-> b, c |-> c]

NoDim == 3

-----------------------------------------------------------------------------
(* The caller.                                                             *)

Idle ==
    /\ argOrg = IZero
    /\ argDir = IZero
    /\ ray = NoRay
    /\ calls = <<>>
    /\ vec = IZero
    /\ dim = NoDim

\* one ray, one triangle
Init ==
    /\ \E o \in Orgs, d \in Dirs, a \in Pts, b \in Pts, c \in Pts :
           todo = <<CallNew(o, d), CallIntersect(a, b, c)>>
    /\ Idle

\* one direction of each pair d, -d
HalfDirs == {d \in Dirs : \/ d[1] > 0
                          \/ d[1] = 0 /\ d[2] > 0
                          \/ d[1] = 0 /\ d[2] = 0 /\ d[3] > 0}

\* one triangle, a ray and the reversed ray
InitReversed ==
    /\ \E o \in Orgs, d \in HalfDirs, a \in Pts, b \in Pts, c \in Pts :
           todo = <<CallNew(o, d), CallIntersect(a, b, c),
                    CallNew(o, IScale(-1, d)), CallIntersect(a, b, c)>>
    /\ Idle

\* one ray, a triangle and the triangle scaled by MaxScale about the ray origin
InitScaled ==
    /\ \E o \in Orgs, d \in Dirs, a \in Pts, b \in Pts, c \in Pts :
           todo = <<CallNew(o, d), CallIntersect(a, b, c),
                    CallIntersect(IAdd(o, IScale(MaxScale, ISub(a, o))),
                                  IAdd(o, IScale(MaxScale, ISub(b, o))),
                                  IAdd(o, IScale(MaxScale, ISub(c, o))))>>
    /\ Idle

\* the six orders of three vertices
Orders(a, b, c) == {<<a, b, c>>, <<b, c, a>>, <<c, a, b>>, <<b, a, c>>, <<a, c, b>>, <<c, b, a>>}

\* two triangles with the common edge ab, the second in any vertex order, and a
\* ray through a point of ab
InitSharedEdge ==
    /\ \E o \in Orgs, a \in Pts, b \in Pts, c \in Pts, d \in Pts,
          i \in 0..MaxBary, s \in {-1, 1} :
           LET aim == ISub(IAdd(IScale(i, a), IScale(MaxBary - i, b)), IScale(MaxBary, o))
           IN  /\ aim # IZero
               /\ \E t \in Orders(a, b, d) :
                      todo = <<CallNew(o, IScale(s, aim)), CallIntersect(a, b, c),
                               CallIntersect(t[1], t[2], t[3])>>
    /\ Idle

\* a direct evaluation of max_dim
InitDim ==
    /\ todo = <<>>
    /\ argOrg = IZero
    /\ argDir = IZero
    /\ ray = NoRay
    /\ calls = <<>>
    /\ vec \in Vecs
    /\ dim = NoDim

\* let ray = RayData::new(org, dir);
New ==
    /\ todo # <<>>
    /\ Head(todo).op = "new"
    /\ ray' = RayData_new(V(Head(todo).org), V(Head(todo).dir))
    /\ argOrg' = Head(todo).org
    /\ argDir' = Head(todo).dir
    /\ todo' = Tail(todo)
    /\ UNCHANGED <<calls, vec, dim>>

\* let res = ray.intersect(a, b, c);
Intersect ==
    /\ todo # <<>>
    /\ Head(todo).op = "intersect"
    /\ LET h == Head(todo)
       IN  calls' = Append(calls,
                [ray |-> ray, org |-> argOrg, dir |-> argDir, a |-> h.a, b |-> h.b, c |-> h.c,
                 e |-> Edges(ray, V(h.a), V(h.b), V(h.c)),
                 res |-> intersect(ray, V(h.a), V(h.b), V(h.c))])
    /\ todo' = Tail(todo)
    /\ UNCHANGED <<argOrg, argDir, ray, vec, dim>>

\* max_dim(vec)
MaxDim ==
    /\ dim = NoDim
    /\ todo = <<>>
    /\ calls = <<>>
    /\ ray = NoRay
    /\ dim' = max_dim(V(vec))
    /\ UNCHANGED <<todo, argOrg, argDir, ray, calls, vec>>

Next == New \/ Intersect
NextDim == MaxDim

Spec == Init /\ [][Next]_vars
SpecReversed == InitReversed /\ [][Next]_vars
SpecScaled == InitScaled /\ [][Next]_vars
SpecSharedEdge == InitSharedEdge /\ [][Next]_vars
SpecDim == InitDim /\ [][NextDim]_vars

-----------------------------------------------------------------------------
(* Properties of max_dim (SpecDim).                                        *)

Evaluated == dim # NoDim

MaxAbs == IF Abs(vec[1]) >= Abs(vec[2]) /\ Abs(vec[1]) >= Abs(vec[3]) THEN Abs(vec[1])
          ELSE IF Abs(vec[2]) >= Abs(vec[3]) THEN Abs(vec[2])
          ELSE Abs(vec[3])

\* the components whose absolute value is the greatest
Maximal == {i \in 0..2 : Abs(vec[i + 1]) = MaxAbs}

Tie == Cardinality(Maximal) >= 2

\* C7: max_dim(v) is an index in 0..2 of a component of greatest absolute value,
\* for every v (the zero vector too), and it is 0, 1, 2, 1, 0 on (1,0,0),
\* (0,1,0), (0,0,1), (2,2,1), (3,1,1).
C7_MaxDimIsArgmax ==
    Evaluated =>
        /\ dim \in 0..2
        /\ \A j \in 0..2 : Abs(vec[dim + 1]) >= Abs(vec[j + 1])
        /\ vec = <<1, 0, 0>> => dim = 0
        /\ vec = <<0, 1, 0>> => dim = 1
        /\ vec = <<0, 0, 1>> => dim = 2
        /\ vec = <<2, 2, 1>> => dim = 1
        /\ vec = <<3, 1, 1>> => dim = 0

C7_Witness == Evaluated /\ vec = <<-3, 1, 2>> /\ dim = 0

\* C8 as stated: on a tie for the greatest absolute value max_dim returns 2,
\* except when |x| > |y| and not |x| > |z|.
C8_TiesFavorZ ==
    (Evaluated /\ Tie /\ ~(Abs(vec[1]) > Abs(vec[2]) /\ ~(Abs(vec[1]) > Abs(vec[3]))))
        => dim = 2

\* C8 amended: on a tie for the greatest absolute value max_dim returns 2 when
\* |z| is among the greatest, and 1 when the tie is between x and y alone.
C8_TieBreak ==
    (Evaluated /\ Tie) => dim = (IF 2 \in Maximal THEN 2 ELSE 1)

C8_Witness == Evaluated /\ Tie /\ vec = <<-2, 2, 1>> /\ dim = 1

-----------------------------------------------------------------------------
(* Properties of RayData::new and RayData::intersect.                      *)

Logged == 1..Len(calls)

\* the normal of the triangle of a logged call, and its geometry
Normal(c) == ICross(ISub(c.b, c.a), ISub(c.c, c.a))
NonDegenerate(c) == Normal(c) # IZero
Parallel(c) == IDot(c.dir, Normal(c)) = 0

\* det = U + V + W of a logged call
Det(c) == RAdd(RAdd(c.e.u, c.e.v), c.e.w)

\* i in 1..3: coordinate i of org + t * dir, and of u * A + v * B + w * C
RayPoint(c, i) == RAdd(R(c.org[i]), RMul(c.res.t, R(c.dir[i])))
BaryPoint(c, i) ==
    RAdd(RAdd(RMul(c.res.u, R(c.a[i])), RMul(c.res.v, R(c.b[i]))), RMul(c.res.w, R(c.c[i])))

\* C1: a hit Some{t, u, v, w} satisfies org + t * dir = u * A + v * B + w * C in
\* all three coordinates.
C1_HitPointSound ==
    \A n \in Logged :
        calls[n].res.some =>
            \A i \in 1..3 :
                /\ Defined(RayPoint(calls[n], i))
                /\ RayPoint(calls[n], i) = BaryPoint(calls[n], i)

\* a hit strictly inside the triangle, at a non-integer distance and with three
\* different weights
C1_Witness ==
    \E n \in Logged :
        LET r == calls[n].res
        IN  /\ r.some
            /\ RGt(r.u, Zero) /\ RGt(r.v, Zero) /\ RGt(r.w, Zero)
            /\ r.u # r.v /\ r.v # r.w /\ r.u # r.w
            /\ r.t[2] # 1

\* C4: the weights of a hit are non-negative and sum to 1, and a hit is only
\* produced when det = U + V + W is non-zero.
C4_ConvexCombination ==
    \A n \in Logged :
        LET r == calls[n].res
        IN  r.some =>
                /\ RGe(r.u, Zero) /\ RGe(r.v, Zero) /\ RGe(r.w, Zero)
                /\ RAdd(RAdd(r.u, r.v), r.w) = One
                /\ Defined(Det(calls[n])) /\ Det(calls[n]) # Zero
                /\ Defined(r.t)

\* a hit on an edge through a triangle seen from behind (U, V, W <= 0)
C4_Witness ==
    \E n \in Logged :
        LET r == calls[n].res
        IN  /\ r.some
            /\ r.u = Zero /\ RGt(r.v, Zero) /\ RGt(r.w, Zero)
            /\ RLt(Det(calls[n]), Zero)

\* C5: a direction parallel to the plane of the triangle and an origin outside
\* that plane give det = U + V + W = 0 and None.
C5_ParallelMiss ==
    \A n \in Logged :
        LET c == calls[n]
        IN  (Parallel(c) /\ IDot(ISub(c.a, c.org), Normal(c)) # 0) =>
                /\ Det(c) = Zero
                /\ c.res = None

\* a triangle in the plane z = 0, the direction (1, 0, 0), the origin off the plane
C5_Witness ==
    \E n \in Logged :
        LET c == calls[n]
        IN  /\ c.a[3] = 0 /\ c.b[3] = 0 /\ c.c[3] = 0
            /\ NonDegenerate(c)
            /\ c.dir = <<1, 0, 0>>
            /\ c.org[3] # 0
            /\ c.res = None

\* C9: RayData::new of a non-zero direction yields kz in 0..2, kx = (kz+1) mod 3,
\* ky = (kz+2) mod 3, so {kx, ky, kz} = {0, 1, 2}, and direction[kz] # 0, so
\* that sx, sy, sz are defined.
C9_RayDataWellFormed ==
    (ray # NoRay /\ argDir # IZero) =>
        /\ ray.kz \in 0..2
        /\ ray.kx = (ray.kz + 1) % 3
        /\ ray.ky = (ray.kz + 2) % 3
        /\ {ray.kx, ray.ky, ray.kz} = {0, 1, 2}
        /\ argDir[ray.kz + 1] # 0
        /\ Defined(ray.sx) /\ Defined(ray.sy) /\ Defined(ray.sz)

\* a direction whose greatest component is negative and the only non-zero one
C9_Witness == ray # NoRay /\ argDir = <<-2, 0, 0>> /\ ray.kz = 0 /\ ray.sz = <<-1, 2>>

\* The line of the ray of a logged call passes through the point
\* (i*A + j*B + k*C) / m of the triangle (i, j, k >= 0, i + j + k = m > 0):
\* that point minus org is a multiple of dir.
OnLine(c, i, j, k) ==
    ICross(ISub(IAdd(IAdd(IScale(i, c.a), IScale(j, c.b)), IScale(k, c.c)),
                IScale(i + j + k, c.org)),
           c.dir) = IZero

\* The line meets the closed triangle.  The point where a line meets the plane
\* of a triangle has barycentric coordinates with the denominator dir . normal,
\* so the points with that denominator are all there is to try.
LineMeetsTriangle(c) ==
    LET m == Abs(IDot(c.dir, Normal(c)))
    IN  \E i \in 0..m : \E j \in 0..(m - i) : OnLine(c, i, j, m - i - j)

\* The line meets the boundary of the triangle (an edge or a vertex).
LineMeetsBoundary(c) ==
    LET m == Abs(IDot(c.dir, Normal(c)))
    IN  \E i \in 0..m : \/ OnLine(c, i, m - i, 0)
                        \/ OnLine(c, i, 0, m - i)
                        \/ OnLine(c, 0, i, m - i)

\* C2: when the triangle is non-degenerate, its plane is not parallel to the
\* direction and the line org + t * dir (any t) passes through a point of the
\* closed triangle, intersect returns Some, for either winding, edges and
\* vertices included.
C2_Complete ==
    \A n \in Logged :
        LET c == calls[n]
        IN  (NonDegenerate(c) /\ ~Parallel(c) /\ LineMeetsTriangle(c)) => c.res.some

\* a line through the boundary of a triangle seen from behind, hit at t < 0
C2_Witness ==
    \E n \in Logged :
        LET c == calls[n]
        IN  /\ NonDegenerate(c) /\ ~Parallel(c)
            /\ LineMeetsBoundary(c)
            /\ RLt(Det(c), Zero)
            /\ c.res.some
            /\ RLt(c.res.t, Zero)

-----------------------------------------------------------------------------
(* Two calls.                                                              *)

SameWeights(r1, r2) == r1.u = r2.u /\ r1.v = r2.v /\ r1.w = r2.w

\* C6 (SpecReversed): the ray of direction d and the ray of direction -d from
\* the same origin give, on the same triangle, both None or both Some with the
\* same u, v, w and opposite t.
C6_NoDistanceCulling ==
    (/\ Len(calls) = 2
     /\ calls[1].org = calls[2].org
     /\ calls[1].dir = IScale(-1, calls[2].dir)
     /\ <<calls[1].a, calls[1].b, calls[1].c>> = <<calls[2].a, calls[2].b, calls[2].c>>)
        => /\ calls[1].res.some = calls[2].res.some
           /\ calls[1].res.some =>
                  /\ SameWeights(calls[1].res, calls[2].res)
                  /\ Defined(calls[1].res.t)
                  /\ calls[1].res.t = RNeg(calls[2].res.t)

\* the triangle is in front of one ray and behind the other, and both hit
C6_Witness ==
    /\ Len(calls) = 2
    /\ calls[1].dir = IScale(-1, calls[2].dir)
    /\ calls[1].res.some /\ calls[2].res.some
    /\ RLt(calls[1].res.t, Zero)
    /\ RGt(calls[2].res.t, Zero)

\* the vertex p of the first call is the vertex q of the second, scaled by
\* MaxScale about the origin of the ray
ScaledVertex(p, q, o) == ISub(q, o) = IScale(MaxScale, ISub(p, o))

\* C10 (SpecScaled): scaling A - org, B - org, C - org by a positive constant
\* changes neither the outcome None / Some nor u, v, w of a hit.
C10_ScaleInvariant ==
    (/\ Len(calls) = 2
     /\ calls[1].ray = calls[2].ray
     /\ ScaledVertex(calls[1].a, calls[2].a, calls[1].org)
     /\ ScaledVertex(calls[1].b, calls[2].b, calls[1].org)
     /\ ScaledVertex(calls[1].c, calls[2].c, calls[1].org))
        => /\ calls[1].res.some = calls[2].res.some
           /\ calls[1].res.some => SameWeights(calls[1].res, calls[2].res)

\* a hit whose det is less than 1 in absolute value before the scaling
C10_Witness ==
    /\ Len(calls) = 2
    /\ calls[1].res.some /\ calls[2].res.some
    /\ RLt(RAbs(Det(calls[1])), One)
    /\ Det(calls[1]) # Det(calls[2])
    /\ RGt(calls[1].res.u, Zero)

\* the line of the ray passes through a point of the segment pq
ThroughSegment(c, p, q) ==
    \E i \in 0..MaxBary :
        ICross(ISub(IAdd(IScale(i, p), IScale(MaxBary - i, q)), IScale(MaxBary, c.org)),
               c.dir) = IZero

\* the two triangles have the edge (a, b) of the first in common
ShareEdge(c1, c2) ==
    /\ c1.a # c1.b
    /\ {c1.a, c1.b} \subseteq {c2.a, c2.b, c2.c}

\* C3 (SpecSharedEdge): two non-degenerate triangles with a common edge and a
\* ray, parallel to neither, whose line passes through a point of that edge:
\* intersect on the same RayData returns Some for at least one of them.
C3_Watertight ==
    (/\ Len(calls) = 2
     /\ calls[1].ray = calls[2].ray
     /\ ShareEdge(calls[1], calls[2])
     /\ NonDegenerate(calls[1]) /\ NonDegenerate(calls[2])
     /\ ~Parallel(calls[1]) /\ ~Parallel(calls[2])
     /\ ThroughSegment(calls[1], calls[1].a, calls[1].b))
        => calls[1].res.some \/ calls[2].res.some

\* two triangles on either side of their common edge, wound the same way, and a
\* ray through the inside of the edge
C3_Witness ==
    /\ Len(calls) = 2
    /\ ShareEdge(calls[1], calls[2])
    /\ calls[2].a = calls[1].b /\ calls[2].b = calls[1].a
    /\ calls[2].c # calls[1].c
    /\ NonDegenerate(calls[1]) /\ NonDegenerate(calls[2])
    /\ ~Parallel(calls[1]) /\ ~Parallel(calls[2])
    /\ ThroughSegment(calls[1], calls[1].a, calls[1].b)
    /\ calls[1].res.some /\ calls[2].res.some
    /\ calls[1].res.w = Zero /\ RGt(calls[1].res.u, Zero) /\ RGt(calls[1].res.v, Zero)
    /\ RLt(Det(calls[1]), Zero) /\ RLt(Det(calls[2]), Zero)

====
